---- MODULE Spec2Model ----
(***************************************************************************)
(* go-telemetry: the environment resolver (config.go), provider assembly   *)
(* (telemetry.go: New / newWithOptions), the background Prometheus server  *)
(* goroutine, Telemetry.Shutdown and Options.applyEnvVars.                 *)
(*                                                                         *)
(* Strings that the code splits, trims or parses are sequences of atoms:   *)
(* the metrics-exporter selector is a sequence of words and the separator  *)
(* atoms "," and " "; PROMETHEUS_PORT is a sequence of characters.  Other  *)
(* strings are only compared and are plain strings.                        *)
(***************************************************************************)
EXTENDS Integers, Sequences, FiniteSets, TLC

VARIABLES
    env,       \* the process environment read through os.Getenv
    opts,      \* the *Options handed to New (isNil for nil); New mutates it
    applied,   \* has applyEnvVars run, and the Options it was called on
    nserve,    \* goroutines New started with "go func() { ListenAndServe }"
    q,         \* answers of the four enablement queries
    tel,       \* the *Telemetry returned by New (valid = FALSE for nil)
    newErr,    \* the error returned by New (msg "" for nil, "pending" before)
    srv,       \* the http.Server behind promServer and its listener
    gpc,       \* position of the goroutine running promServer.ListenAndServe
    stderr,    \* TRUE once the goroutine printed "Prometheus server error"
    spc,       \* position inside Telemetry.Shutdown (0 = not running)
    err,       \* Shutdown's local variable err (<<>> is nil)
    ret,       \* value returned by the last Shutdown call that returned
    calls,     \* calls the running/last Shutdown made, with their outcomes
    stopped,   \* per component: has its Shutdown been invoked before
    ncalls,    \* number of Shutdown calls that have returned
    span,      \* what the last Telemetry.StartSpan call returned
    ad,        \* one logger backend adapter (zerolog, zap, logrus or slog)
    stack      \* files of the call stack at the adapter's construction

vars == <<env, opts, applied, nserve, q, tel, newErr, srv, gpc, stderr, spc,
          err, ret, calls, stopped, ncalls, span, ad, stack>>

\* q before any query was made
NotAsked ==
    [asked |-> FALSE, otel |-> FALSE, traces |-> FALSE, metrics |-> FALSE,
     logs |-> FALSE]

----------------------------------------------------------------------------
(* Bounds                                                                  *)

\* Shutdown calls on one instance
MaxShutdownCalls == 2

----------------------------------------------------------------------------
(* Environment                                                             *)

\* os.Getenv: an unset variable reads as the empty string
EmptyEnv ==
    [OTEL_SDK_DISABLED |-> "", OTEL_SERVICE_NAME |-> "",
     OTEL_SERVICE_VERSION |-> "",
     OTEL_EXPORTER_OTLP_ENDPOINT |-> "",
     OTEL_EXPORTER_OTLP_TRACES_ENDPOINT |-> "",
     OTEL_EXPORTER_OTLP_METRICS_ENDPOINT |-> "",
     OTEL_EXPORTER_OTLP_LOGS_ENDPOINT |-> "",
     OTEL_TRACES_EXPORTER |-> "", OTEL_METRICS_EXPORTER |-> <<>>,
     OTEL_LOGS_EXPORTER |-> "",
     PROMETHEUS_PORT |-> <<>>, PROMETHEUS_PATH |-> ""]

\* strconv.ParseBool: the accepted spellings, anything else is an error
\* (and the value returned with the error is false)
ParseBool(s) ==
    IF s \in {"1", "t", "T", "TRUE", "true", "True"}
      THEN [val |-> TRUE, ok |-> TRUE]
    ELSE IF s \in {"0", "f", "F", "FALSE", "false", "False"}
      THEN [val |-> FALSE, ok |-> TRUE]
    ELSE [val |-> FALSE, ok |-> FALSE]

\* the selector literal "none"
NoneSel == <<"none">>

\* shouldEnableOTel with the kill-switch check left out
shouldEnableOTelNoKill(e) ==
    \/ e.OTEL_EXPORTER_OTLP_ENDPOINT # ""
    \/ e.OTEL_EXPORTER_OTLP_TRACES_ENDPOINT # ""
    \/ e.OTEL_EXPORTER_OTLP_METRICS_ENDPOINT # ""
    \/ e.OTEL_EXPORTER_OTLP_LOGS_ENDPOINT # ""
    \/ (e.OTEL_TRACES_EXPORTER # "" /\ e.OTEL_TRACES_EXPORTER # "none")
    \/ (e.OTEL_METRICS_EXPORTER # <<>> /\ e.OTEL_METRICS_EXPORTER # NoneSel)
    \/ (e.OTEL_LOGS_EXPORTER # "" /\ e.OTEL_LOGS_EXPORTER # "none")

\* shouldEnableOTel that is on unless the kill switch is set
shouldEnableOTelDefaultOn(e) ==
    IF ParseBool(e.OTEL_SDK_DISABLED).val THEN FALSE ELSE TRUE

\* shouldEnableOTel that forgets the signal-specific endpoints
shouldEnableOTelGlobalOnly(e) ==
    IF ParseBool(e.OTEL_SDK_DISABLED).val THEN FALSE
    ELSE IF e.OTEL_EXPORTER_OTLP_ENDPOINT # "" THEN TRUE
    ELSE IF e.OTEL_TRACES_EXPORTER # "" /\ e.OTEL_TRACES_EXPORTER # "none"
      THEN TRUE
    ELSE IF e.OTEL_METRICS_EXPORTER # <<>> /\ e.OTEL_METRICS_EXPORTER # NoneSel
      THEN TRUE
    ELSE IF e.OTEL_LOGS_EXPORTER # "" /\ e.OTEL_LOGS_EXPORTER # "none"
      THEN TRUE
    ELSE FALSE

shouldEnableOTel(e) ==
    IF ParseBool(e.OTEL_SDK_DISABLED).val THEN FALSE
    ELSE IF e.OTEL_EXPORTER_OTLP_ENDPOINT # "" THEN TRUE
    ELSE IF e.OTEL_EXPORTER_OTLP_TRACES_ENDPOINT # "" THEN TRUE
    ELSE IF e.OTEL_EXPORTER_OTLP_METRICS_ENDPOINT # "" THEN TRUE
    ELSE IF e.OTEL_EXPORTER_OTLP_LOGS_ENDPOINT # "" THEN TRUE
    ELSE IF e.OTEL_TRACES_EXPORTER # "" /\ e.OTEL_TRACES_EXPORTER # "none"
      THEN TRUE
    ELSE IF e.OTEL_METRICS_EXPORTER # <<>> /\ e.OTEL_METRICS_EXPORTER # NoneSel
      THEN TRUE
    ELSE IF e.OTEL_LOGS_EXPORTER # "" /\ e.OTEL_LOGS_EXPORTER # "none"
      THEN TRUE
    ELSE FALSE

\* shouldEnableTraces that ignores its own exporter variable
shouldEnableTracesIgnoreNone(e) == shouldEnableOTel(e)

shouldEnableTraces(e) ==
    IF ~shouldEnableOTel(e) THEN FALSE
    ELSE e.OTEL_TRACES_EXPORTER # "none"

shouldEnableMetrics(e) ==
    IF ~shouldEnableOTel(e) THEN FALSE
    ELSE e.OTEL_METRICS_EXPORTER # NoneSel

shouldEnableLogs(e) ==
    IF ~shouldEnableOTel(e) THEN FALSE
    ELSE e.OTEL_LOGS_EXPORTER # "none"

----------------------------------------------------------------------------
(* Options                                                                 *)

\* Options.Logger left nil; a supplied logger.Logger has an identity and may
\* implement LoggerOptionsUpdater and LoggerProviderUpdater
NoLogger ==
    [present |-> FALSE, id |-> "nil", optsUpdater |-> FALSE,
     providerUpdater |-> FALSE]

\* DefaultOptions()
DefaultOptions ==
    [isNil |-> FALSE, ServiceName |-> "unknown", ServiceVersion |-> "unknown",
     BatchExport |-> FALSE, MetricsExporter |-> <<>>, PrometheusPort |-> 9090,
     PrometheusPath |-> "/metrics", PrometheusServer |-> FALSE,
     Logger |-> NoLogger]

\* the zero value &Options{}: what a caller's literal leaves unset
ZeroOptions ==
    [isNil |-> FALSE, ServiceName |-> "", ServiceVersion |-> "",
     BatchExport |-> FALSE, MetricsExporter |-> <<>>, PrometheusPort |-> 0,
     PrometheusPath |-> "", PrometheusServer |-> FALSE, Logger |-> NoLogger]

\* a nil *Options
NilOptions == [ZeroOptions EXCEPT !.isNil = TRUE]

Digits == {"0", "1", "2", "3", "4", "5", "6", "7", "8", "9"}

DigitVal(c) ==
    CASE c = "0" -> 0 [] c = "1" -> 1 [] c = "2" -> 2 [] c = "3" -> 3
      [] c = "4" -> 4 [] c = "5" -> 5 [] c = "6" -> 6 [] c = "7" -> 7
      [] c = "8" -> 8 [] c = "9" -> 9

RECURSIVE DecVal(_)
DecVal(cs) ==
    IF cs = <<>> THEN 0
    ELSE 10 * DecVal(SubSeq(cs, 1, Len(cs) - 1)) + DigitVal(cs[Len(cs)])

\* strconv.Atoi: an optional sign, then one or more decimal digits
Atoi(cs) ==
    LET signed == cs # <<>> /\ cs[1] \in {"+", "-"}
        body == IF signed THEN Tail(cs) ELSE cs
    IN IF body = <<>> \/ \E i \in 1..Len(body) : body[i] \notin Digits
         THEN [val |-> 0, ok |-> FALSE]
       ELSE [val |-> IF signed /\ cs[1] = "-" THEN 0 - DecVal(body)
                     ELSE DecVal(body),
             ok |-> TRUE]

\* applyEnvVars with the caller's value winning over the environment
OverrideKeepCaller(field, v) == IF field # "" THEN field ELSE v

\* applyEnvVars: "if v := os.Getenv(NAME); v != "" { o.Field = v }"
Override(field, v) == IF v # "" THEN v ELSE field

\* the same statement for the selector, a sequence of atoms
OverrideSelector(field, v) == IF v # <<>> THEN v ELSE field

\* applyEnvVars with an unparseable port falling back to the default
PortOverrideResetDefault(port, v) ==
    IF v = <<>> THEN port
    ELSE IF Atoi(v).ok THEN Atoi(v).val ELSE 9090

\* applyEnvVars: PROMETHEUS_PORT replaces the port only when Atoi accepts it
PortOverride(port, v) ==
    IF v # <<>> /\ Atoi(v).ok THEN Atoi(v).val ELSE port

\* (*Options).applyEnvVars
applyEnvVars(o, e) ==
    [o EXCEPT
       !.ServiceName = Override(@, e.OTEL_SERVICE_NAME),
       !.ServiceVersion = Override(@, e.OTEL_SERVICE_VERSION),
       !.MetricsExporter = OverrideSelector(@, e.OTEL_METRICS_EXPORTER),
       !.PrometheusPort = PortOverride(@, e.PROMETHEUS_PORT),
       !.PrometheusPath = Override(@, e.PROMETHEUS_PATH)]

----------------------------------------------------------------------------
(* State at rest                                                           *)

\* no Telemetry instance
NoResource == [present |-> FALSE, name |-> "", version |-> ""]

NoTelLogger == [id |-> "nil", lp |-> FALSE, calls |-> <<>>]

NoTel ==
    [valid |-> FALSE, cfg |-> ZeroOptions,
     lp |-> FALSE, mp |-> FALSE, tp |-> FALSE,
     readers |-> <<>>, res |-> NoResource, tracer |-> "nil",
     logger |-> NoTelLogger, promServer |-> FALSE, promHandler |-> 0]

\* no http.Server was built
NoServer ==
    [built |-> FALSE, port |-> 0, path |-> "", handler |-> 0,
     inShutdown |-> FALSE, ln |-> "none", drained |-> FALSE]

NoError == [msg |-> "", entry |-> <<>>]

\* StartSpan has not been called
NoSpan == [called |-> FALSE, panicked |-> FALSE, ctx |-> FALSE, span |-> "nil"]

\* no adapter has been constructed.  sinks counts the OTel sinks (hook,
\* core or handler) on the adapter's current logger; the slog fields say
\* whether a CallerHandler is in the handler chain and with which skip,
\* derived is the handler chain of the last logger derived from it with
\* With; level, severity and emitted describe the last event logged.
NoAdapter ==
    [kind |-> "none", otelEnabled |-> FALSE, sinks |-> 0,
     serviceName |-> "", updates |-> 0, lastOp |-> "none", exited |-> FALSE,
     addSource |-> FALSE, given |-> 0, skip0 |-> 0,
     hasCaller |-> FALSE, callerSkip |-> 0,
     derived |-> [made |-> FALSE, hasCaller |-> FALSE, callerSkip |-> 0,
                  sinks |-> 0],
     level |-> "none", severity |-> "none", emitted |-> 0]

\* applyEnvVars has not run
NotApplied == [done |-> FALSE, before |-> NilOptions]

Components == {"server", "lp", "mp", "tp"}

\* everything New and Shutdown have not touched yet
Rest ==
    /\ applied = NotApplied
    /\ nserve = 0
    /\ q = NotAsked
    /\ tel = NoTel
    /\ newErr = [msg |-> "pending", entry |-> <<>>]
    /\ srv = NoServer
    /\ gpc = "none"
    /\ stderr = FALSE
    /\ spc = 0
    /\ err = <<>>
    /\ ret = <<>>
    /\ calls = <<>>
    /\ stopped = [c \in Components |-> FALSE]
    /\ ncalls = 0
    /\ span = NoSpan
    /\ ad = NoAdapter

----------------------------------------------------------------------------
(* The enablement queries over the environment (config.go)                 *)

SdkDisabledValues == {"", "true", "1", "T", "false", "yes"}
EndpointValues == {"", "http://localhost:4317"}
ExporterValues == {"", "none", "otlp", "console"}
SelectorValues ==
    {<<>>, <<"none">>, <<"otlp">>, <<"prometheus">>,
     <<"prometheus", ",", "otlp">>, <<" ", "none">>}

\* every combination of the kill-switch, the four endpoints and the three
\* exporter names
EnvCombos ==
    {[EmptyEnv EXCEPT !.OTEL_SDK_DISABLED = d,
                      !.OTEL_EXPORTER_OTLP_ENDPOINT = g,
                      !.OTEL_EXPORTER_OTLP_TRACES_ENDPOINT = t,
                      !.OTEL_EXPORTER_OTLP_METRICS_ENDPOINT = m,
                      !.OTEL_EXPORTER_OTLP_LOGS_ENDPOINT = l,
                      !.OTEL_TRACES_EXPORTER = te,
                      !.OTEL_METRICS_EXPORTER = me,
                      !.OTEL_LOGS_EXPORTER = le] :
        d \in SdkDisabledValues,
        g \in EndpointValues, t \in EndpointValues, m \in EndpointValues,
        l \in EndpointValues,
        te \in ExporterValues, me \in SelectorValues, le \in ExporterValues}

InitEnv ==
    /\ env \in EnvCombos
    /\ opts = NilOptions
    /\ stack = <<>>
    /\ Rest

\* one call each of shouldEnableOTel, shouldEnableTraces,
\* shouldEnableMetrics and shouldEnableLogs
Query ==
    /\ ~q.asked
    /\ q' = [asked |-> TRUE,
             otel |-> shouldEnableOTel(env),
             traces |-> shouldEnableTraces(env),
             metrics |-> shouldEnableMetrics(env),
             logs |-> shouldEnableLogs(env)]
    /\ UNCHANGED <<env, span, ad, stack, opts, applied, nserve, tel, newErr, srv, gpc, stderr, spc, err, ret,
                   calls, stopped, ncalls>>

NextEnv == Query

SpecEnv == InitEnv /\ [][NextEnv]_vars

\* the kill-switch is on: OTEL_SDK_DISABLED parses as boolean true
KillSwitch(e) == e.OTEL_SDK_DISABLED \in {"1", "t", "T", "TRUE", "true", "True"}

AnyEndpoint(e) ==
    \E n \in {e.OTEL_EXPORTER_OTLP_ENDPOINT,
              e.OTEL_EXPORTER_OTLP_TRACES_ENDPOINT,
              e.OTEL_EXPORTER_OTLP_METRICS_ENDPOINT,
              e.OTEL_EXPORTER_OTLP_LOGS_ENDPOINT} : n # ""

AnyExporter(e) ==
    \/ e.OTEL_TRACES_EXPORTER \notin {"", "none"}
    \/ e.OTEL_METRICS_EXPORTER \notin {<<>>, <<"none">>}
    \/ e.OTEL_LOGS_EXPORTER \notin {"", "none"}

\* C1: with OTEL_SDK_DISABLED parsing as true, all four enablement queries
\* answer false, whatever the endpoint and exporter variables hold.
C1_KillSwitchDisablesAll ==
    (q.asked /\ KillSwitch(env)) =>
        (~q.otel /\ ~q.traces /\ ~q.metrics /\ ~q.logs)

\* the kill-switch is on while an endpoint and an exporter are set, and the
\* queries have been answered
C1_Witness ==
    /\ q.asked
    /\ KillSwitch(env)
    /\ env.OTEL_EXPORTER_OTLP_ENDPOINT # ""
    /\ env.OTEL_EXPORTER_OTLP_LOGS_ENDPOINT # ""
    /\ env.OTEL_TRACES_EXPORTER = "otlp"
    /\ env.OTEL_METRICS_EXPORTER = <<"prometheus">>

\* C3: with the kill-switch not on (unset, false or unparseable),
\* shouldEnableOTel is true iff an OTLP endpoint variable is non-empty or a
\* signal exporter variable is non-empty and not "none".
C3_MasterEnableIff ==
    (q.asked /\ ~KillSwitch(env)) =>
        (q.otel <=> (AnyEndpoint(env) \/ AnyExporter(env)))

\* enabled by a signal-specific endpoint alone, under an unparseable
\* kill-switch value
C3_Witness ==
    /\ q.asked
    /\ env.OTEL_SDK_DISABLED = "yes"
    /\ env.OTEL_EXPORTER_OTLP_ENDPOINT = ""
    /\ env.OTEL_EXPORTER_OTLP_METRICS_ENDPOINT # ""
    /\ ~AnyExporter(env)
    /\ q.otel

\* C4: each per-signal query is true iff shouldEnableOTel is true and the
\* signal's own exporter variable is not exactly "none".
C4_SignalEnableIff ==
    q.asked =>
        /\ q.traces <=> (q.otel /\ env.OTEL_TRACES_EXPORTER # "none")
        /\ q.metrics <=> (q.otel /\ env.OTEL_METRICS_EXPORTER # <<"none">>)
        /\ q.logs <=> (q.otel /\ env.OTEL_LOGS_EXPORTER # "none")

\* the master is enabled, traces are switched off by "none", and a metrics
\* selector that is not exactly "none" leaves metrics on
C4_Witness ==
    /\ q.asked
    /\ q.otel
    /\ env.OTEL_TRACES_EXPORTER = "none" /\ ~q.traces
    /\ env.OTEL_METRICS_EXPORTER = <<" ", "none">> /\ q.metrics
    /\ q.logs

----------------------------------------------------------------------------
(* Provider assembly: New / newWithOptions (telemetry.go)                  *)

\* exporter constructions that this run's collaborators make fail
FailKinds == {"logs", "traces", "prometheus", "otlp"}

\* strings.Split(s, ","): the pieces between the "," atoms
RECURSIVE Split(_)
Split(s) ==
    IF \A i \in 1..Len(s) : s[i] # "," THEN <<s>>
    ELSE LET i == CHOOSE k \in 1..Len(s) :
                      s[k] = "," /\ \A j \in 1..(k - 1) : s[j] # ","
         IN <<SubSeq(s, 1, i - 1)>> \o Split(SubSeq(s, i + 1, Len(s)))

\* strings.TrimSpace: leading and trailing white space removed
RECURSIVE TrimSpace(_)
TrimSpace(s) ==
    IF s # <<>> /\ s[1] = " " THEN TrimSpace(Tail(s))
    ELSE IF s # <<>> /\ s[Len(s)] = " "
      THEN TrimSpace(SubSeq(s, 1, Len(s) - 1))
    ELSE s

\* newResource
newResource(name, version) ==
    [present |-> TRUE, name |-> name, version |-> version]

\* newLoggerProvider: (provider present, error)
newLoggerProvider(e, fails) ==
    IF ~shouldEnableLogs(e) THEN [p |-> FALSE, err |-> FALSE]
    ELSE IF "logs" \in fails THEN [p |-> FALSE, err |-> TRUE]
    ELSE [p |-> TRUE, err |-> FALSE]

\* newTracerProvider: (provider present, error)
newTracerProvider(e, fails) ==
    IF ~shouldEnableTraces(e) THEN [p |-> FALSE, err |-> FALSE]
    ELSE IF "traces" \in fails THEN [p |-> FALSE, err |-> TRUE]
    ELSE [p |-> TRUE, err |-> FALSE]

\* metrics enabled only behind the environment's enablement check
MetricsDecisionBehindMaster(o, e) ==
    LET exporter == IF o.MetricsExporter = <<>>
                      THEN e.OTEL_METRICS_EXPORTER ELSE o.MetricsExporter
    IN IF shouldEnableMetrics(e)
         THEN [enable |-> TRUE,
               exporter |-> IF exporter # <<>> /\ exporter # NoneSel
                              THEN exporter ELSE <<"otlp">>]
       ELSE [enable |-> FALSE, exporter |-> exporter]

\* newWithOptions: the selector (exporter) and enableMetrics
MetricsDecision(o, e) ==
    LET exporter == IF o.MetricsExporter = <<>>
                      THEN e.OTEL_METRICS_EXPORTER ELSE o.MetricsExporter
    IN IF exporter # <<>> /\ exporter # NoneSel
         THEN [enable |-> TRUE, exporter |-> exporter]
       ELSE IF shouldEnableMetrics(e)
         THEN [enable |-> TRUE, exporter |-> <<"otlp">>]
       ELSE [enable |-> FALSE, exporter |-> exporter]

\* the accumulator of the loop over exportersList before its first entry
NoReaders ==
    [readers |-> <<>>, promHandler |-> 0, server |-> NoServer,
     started |-> 0, err |-> NoError]

\* the text of the error for an entry that is no known exporter; %s is the
\* entry, carried in the error's entry field
UnsupportedMsg ==
    "unsupported metrics exporter: %s (supported: otlp, prometheus, none)"

\* ServeMux.Handle panics on the empty pattern
InvalidPatternPanic == [msg |-> "panic: http: invalid pattern", entry |-> <<>>]

\* the "prometheus" case with a server started for every entry
AddPrometheusServerEach(acc, i, o) ==
    [acc EXCEPT
       !.readers = Append(@, [kind |-> "prometheus", entry |-> i]),
       !.promHandler = IF @ = 0 THEN i ELSE @,
       !.server = IF o.PrometheusServer
                    THEN [NoServer EXCEPT !.built = TRUE,
                                          !.port = o.PrometheusPort,
                                          !.path = o.PrometheusPath,
                                          !.handler = i]
                  ELSE @,
       !.started = IF o.PrometheusServer THEN @ + 1 ELSE @]

\* the "prometheus" case with the handler of the latest entry kept
AddPrometheusLastHandler(acc, i, o) ==
    [acc EXCEPT
       !.readers = Append(@, [kind |-> "prometheus", entry |-> i]),
       !.promHandler = i,
       !.server = IF o.PrometheusServer /\ ~acc.server.built
                    THEN [NoServer EXCEPT !.built = TRUE,
                                          !.port = o.PrometheusPort,
                                          !.path = o.PrometheusPath,
                                          !.handler = i]
                  ELSE @,
       !.started = IF o.PrometheusServer /\ ~acc.server.built
                     THEN @ + 1 ELSE @]

\* the "prometheus" case with a repeated entry producing no second reader
AddPrometheusOnce(acc, i, o) ==
    [acc EXCEPT
       !.readers = IF acc.promHandler = 0
                     THEN Append(@, [kind |-> "prometheus", entry |-> i])
                   ELSE @,
       !.promHandler = IF @ = 0 THEN i ELSE @,
       !.server = IF o.PrometheusServer /\ ~acc.server.built
                    THEN [NoServer EXCEPT !.built = TRUE,
                                          !.port = o.PrometheusPort,
                                          !.path = o.PrometheusPath,
                                          !.handler = i]
                  ELSE @,
       !.started = IF o.PrometheusServer /\ ~acc.server.built
                     THEN @ + 1 ELSE @]

\* the "prometheus" case keeping the handler and the server but not the
\* reader
AddPrometheusNoReader(acc, i, o) ==
    [acc EXCEPT
       !.promHandler = IF @ = 0 THEN i ELSE @,
       !.server = IF o.PrometheusServer /\ ~acc.server.built
                    THEN [NoServer EXCEPT !.built = TRUE,
                                          !.port = o.PrometheusPort,
                                          !.path = o.PrometheusPath,
                                          !.handler = i]
                  ELSE @,
       !.started = IF o.PrometheusServer /\ ~acc.server.built
                     THEN @ + 1 ELSE @]

\* newWithOptions, case "prometheus" once its reader exists: the reader is
\* appended, the first handler is kept, and the first entry under
\* PrometheusServer builds the http.Server and starts its goroutine
AddPrometheus(acc, i, o) ==
    [acc EXCEPT
       !.readers = Append(@, [kind |-> "prometheus", entry |-> i]),
       !.promHandler = IF @ = 0 THEN i ELSE @,
       !.server = IF o.PrometheusServer /\ ~acc.server.built
                    THEN [NoServer EXCEPT !.built = TRUE,
                                          !.port = o.PrometheusPort,
                                          !.path = o.PrometheusPath,
                                          !.handler = i]
                  ELSE @,
       !.started = IF o.PrometheusServer /\ ~acc.server.built
                     THEN @ + 1 ELSE @]

\* the default case passing over an unknown entry
UnknownEntrySkipped(acc, exp) == acc

\* the default case shutting down a server started by an earlier entry
\* before it returns the error
UnknownEntryStoppingServer(acc, exp) ==
    [acc EXCEPT !.err = [msg |-> UnsupportedMsg, entry |-> exp],
                !.server = [@ EXCEPT !.inShutdown = acc.server.built]]

\* newWithOptions, case default: the error naming the entry
UnknownEntry(acc, exp) ==
    [acc EXCEPT !.err = [msg |-> UnsupportedMsg, entry |-> exp]]

\* newWithOptions: the loop over exportersList from entry i on.  A reader
\* is [kind, entry]; a Prometheus handler is named by the entry that
\* produced it.  The loop ends at the first error (or panic).
RECURSIVE BuildReaders(_, _, _, _, _)
BuildReaders(list, i, acc, o, fails) ==
    IF i > Len(list) \/ acc.err # NoError THEN acc
    ELSE
      LET exp == TrimSpace(list[i]) IN
      IF exp = <<>> \/ exp = NoneSel
        THEN BuildReaders(list, i + 1, acc, o, fails)
      ELSE IF exp = <<"prometheus">> THEN
        IF "prometheus" \in fails
          THEN [acc EXCEPT !.err = [msg |-> "failed to create Prometheus reader",
                                    entry |-> <<>>]]
        ELSE IF o.PrometheusServer /\ ~acc.server.built
                /\ o.PrometheusPath = ""
          THEN [acc EXCEPT !.err = InvalidPatternPanic]
        ELSE BuildReaders(list, i + 1, AddPrometheus(acc, i, o), o, fails)
      ELSE IF exp = <<"otlp">> THEN
        IF "otlp" \in fails
          THEN [acc EXCEPT !.err = [msg |-> "failed to create OTLP reader",
                                    entry |-> <<>>]]
        ELSE
          BuildReaders(list, i + 1,
            [acc EXCEPT !.readers = Append(@, [kind |-> "otlp", entry |-> i])],
            o, fails)
      ELSE BuildReaders(list, i + 1, UnknownEntry(acc, exp), o, fails)

\* the tracer left nil when no tracer provider exists
ResolveTracerNilWhenDisabled(tp) == IF tp THEN "sdk" ELSE "nil"

\* newWithOptions: the tracer is the provider's, or the no-op provider's
\* when tp is nil
ResolveTracer(tp) == IF tp THEN "sdk" ELSE "noop"

\* the supplied logger handed the provider whether or not one exists
ResolveLoggerUpdateAlways(o, lp) ==
    IF o.Logger.present
      THEN [id |-> o.Logger.id,
            lp |-> lp /\ o.Logger.providerUpdater,
            calls |-> (IF o.Logger.optsUpdater
                         THEN <<[op |-> "SetOptions", name |-> o.ServiceName,
                                 version |-> o.ServiceVersion]>>
                       ELSE <<>>)
                      \o (IF o.Logger.providerUpdater
                            THEN <<[op |-> "UpdateLoggerProvider",
                                    name |-> "", version |-> ""]>>
                          ELSE <<>>)]
    ELSE [id |-> "zerolog", lp |-> lp, calls |-> <<>>]

\* newWithOptions: the logger.Logger the instance holds; a supplied logger
\* gets SetOptions and, when a logger provider exists, UpdateLoggerProvider
ResolveLogger(o, lp) ==
    IF o.Logger.present
      THEN [id |-> o.Logger.id,
            lp |-> lp /\ o.Logger.providerUpdater,
            calls |-> (IF o.Logger.optsUpdater
                         THEN <<[op |-> "SetOptions", name |-> o.ServiceName,
                                 version |-> o.ServiceVersion]>>
                       ELSE <<>>)
                      \o (IF lp /\ o.Logger.providerUpdater
                            THEN <<[op |-> "UpdateLoggerProvider",
                                    name |-> "", version |-> ""]>>
                          ELSE <<>>)]
    ELSE [id |-> "zerolog", lp |-> lp, calls |-> <<>>]

\* New(ctx, opts): defaults for nil, environment overrides, then
\* newWithOptions.  The whole call is one step; the goroutine it starts for
\* the built-in server runs on from gpc = "start", also when a later entry
\* makes New return an error.
New ==
    /\ newErr.msg = "pending"
    /\ \E fails \in SUBSET FailKinds :
         LET o == applyEnvVars(IF opts.isNil THEN DefaultOptions ELSE opts, env)
             metricsExporterSet ==
                 o.MetricsExporter # <<>> \/ env.OTEL_METRICS_EXPORTER # <<>>
             res == IF shouldEnableOTel(env) \/ metricsExporterSet
                      THEN newResource(o.ServiceName, o.ServiceVersion)
                    ELSE NoResource
             lp == newLoggerProvider(env, fails)
             tp == newTracerProvider(env, fails)
             md == MetricsDecision(o, env)
             built == IF md.enable
                        THEN BuildReaders(Split(md.exporter), 1, NoReaders, o,
                                          fails)
                      ELSE NoReaders
         IN
         /\ opts' = (IF opts.isNil THEN opts ELSE o)
         /\ applied' = [done |-> TRUE,
                        before |-> IF opts.isNil THEN DefaultOptions ELSE opts]
         /\ IF lp.err THEN
              /\ newErr' = [msg |-> "failed to create logger provider",
                            entry |-> <<>>]
              /\ UNCHANGED <<tel, srv, gpc, nserve>>
            ELSE IF tp.err THEN
              /\ newErr' = [msg |-> "failed to create tracer provider",
                            entry |-> <<>>]
              /\ UNCHANGED <<tel, srv, gpc, nserve>>
            ELSE
              /\ srv' = built.server
              /\ nserve' = built.started
              /\ gpc' = IF built.server.built THEN "start" ELSE "none"
              /\ newErr' = built.err
              /\ tel' = IF built.err # NoError THEN NoTel
                        ELSE [valid |-> TRUE,
                              cfg |-> o,
                              lp |-> lp.p,
                              mp |-> Len(built.readers) > 0,
                              tp |-> tp.p,
                              readers |-> built.readers,
                              res |-> res,
                              tracer |-> ResolveTracer(tp.p),
                              logger |-> ResolveLogger(o, lp.p),
                              promServer |-> built.server.built,
                              promHandler |-> built.promHandler]
    /\ UNCHANGED <<env, span, ad, stack, q, stderr, spc, err, ret, calls, stopped, ncalls>>

\* Telemetry.StartSpan on the instance New returned: t.tracer.Start.  A nil
\* tracer interface panics; the no-op tracer gives a no-op span; the SDK
\* tracer gives a recording span, or a non-recording one once its provider
\* was shut down.  Each gives back a context.
StartSpan ==
    /\ tel.valid
    /\ span' = IF tel.tracer = "nil"
                 THEN [called |-> TRUE, panicked |-> TRUE, ctx |-> FALSE,
                       span |-> "nil"]
               ELSE [called |-> TRUE, panicked |-> FALSE, ctx |-> TRUE,
                     span |-> IF tel.tracer = "noop" THEN "noop"
                              ELSE IF stopped["tp"] THEN "nonrecording"
                              ELSE "recording"]
    /\ UNCHANGED <<env, opts, applied, nserve, q, tel, newErr, srv, gpc,
                   stderr, spc, err, ret, calls, stopped, ncalls, ad, stack>>

\* a direct call of opts.applyEnvVars() on a non-nil Options, as New makes
\* it first and the configuration tests make it alone
ApplyEnvVars ==
    /\ ~applied.done
    /\ ~opts.isNil
    /\ applied' = [done |-> TRUE, before |-> opts]
    /\ opts' = applyEnvVars(opts, env)
    /\ UNCHANGED <<env, span, ad, stack, nserve, q, tel, newErr, srv, gpc, stderr, spc, err,
                   ret, calls, stopped, ncalls>>

----------------------------------------------------------------------------
(* The goroutine of the built-in server: promServer.ListenAndServe()       *)

\* ListenAndServe: a server already shutting down returns ErrServerClosed
\* before listening (not reported)
GoCheck ==
    /\ gpc = "start"
    /\ gpc' = IF srv.inShutdown THEN "done" ELSE "listen"
    /\ UNCHANGED <<env, span, ad, stack, opts, applied, nserve, q, tel, newErr, srv, stderr, spc, err, ret,
                   calls, stopped, ncalls>>

\* ListenAndServe: net.Listen on Addr; a failure (the port is taken) ends
\* the goroutine, which prints it to stderr
GoListen ==
    /\ gpc = "listen"
    /\ \E ok \in BOOLEAN :
         IF ok
           THEN /\ srv' = [srv EXCEPT !.ln = "bound"]
                /\ gpc' = "serve"
                /\ UNCHANGED stderr
         ELSE /\ gpc' = "done"
              /\ stderr' = TRUE
              /\ UNCHANGED srv
    /\ UNCHANGED <<env, span, ad, stack, opts, applied, nserve, q, tel, newErr, spc, err, ret, calls, stopped,
                   ncalls>>

\* Serve: the listener is registered with the server and accepted on, unless
\* the server is shutting down: then Serve closes it and returns
\* ErrServerClosed
GoServe ==
    /\ gpc = "serve"
    /\ IF srv.inShutdown
         THEN /\ srv' = [srv EXCEPT !.ln = "closed"]
              /\ gpc' = "done"
       ELSE /\ srv' = [srv EXCEPT !.ln = "serving"]
            /\ gpc' = "accept"
    /\ UNCHANGED <<env, span, ad, stack, opts, applied, nserve, q, tel, newErr, stderr, spc, err, ret, calls,
                   stopped, ncalls>>

\* Serve: Accept fails on the listener Shutdown closed; ErrServerClosed is
\* returned and not reported
GoExit ==
    /\ gpc = "accept"
    /\ srv.ln = "closed"
    /\ gpc' = "done"
    /\ UNCHANGED <<env, span, ad, stack, opts, applied, nserve, q, tel, newErr, srv, stderr, spc, err, ret,
                   calls, stopped, ncalls>>

----------------------------------------------------------------------------
(* Telemetry.Shutdown (telemetry.go)                                       *)

\* Shutdown with the server stopped after the providers
StepsServerLast ==
    <<[c |-> "lp", op |-> "ForceFlush"], [c |-> "lp", op |-> "Shutdown"],
      [c |-> "mp", op |-> "ForceFlush"], [c |-> "mp", op |-> "Shutdown"],
      [c |-> "tp", op |-> "ForceFlush"], [c |-> "tp", op |-> "Shutdown"],
      [c |-> "server", op |-> "Shutdown"]>>

\* the calls Shutdown makes, in program order, each guarded by its
\* component being non-nil
Steps ==
    <<[c |-> "server", op |-> "Shutdown"],
      [c |-> "lp", op |-> "ForceFlush"], [c |-> "lp", op |-> "Shutdown"],
      [c |-> "mp", op |-> "ForceFlush"], [c |-> "mp", op |-> "Shutdown"],
      [c |-> "tp", op |-> "ForceFlush"], [c |-> "tp", op |-> "Shutdown"]>>

\* t.promServer != nil, t.lp != nil, t.mp != nil, t.tp != nil
Present(t, c) ==
    CASE c = "server" -> t.promServer
      [] c = "lp" -> t.lp
      [] c = "mp" -> t.mp
      [] c = "tp" -> t.tp

\* Shutdown that returns at the first failing call
NextPcStopAtError(pc, out) == IF out = "ok" THEN pc + 1 ELSE Len(Steps) + 1

\* the statement after a call: the next one, whatever the call returned
NextPc(pc, out) == pc + 1

\* err that keeps only the latest failure
AccErrOverwrite(e, c, op, out) ==
    IF out = "ok" THEN e ELSE <<[c |-> c, op |-> op, cause |-> out]>>

\* the error handling after each call: a non-nil result is wrapped into err
\* together with the err accumulated so far (fmt.Errorf with %w for both)
AccErr(e, c, op, out) ==
    IF out = "ok" THEN e
    ELSE IF e # <<>> THEN Append(e, [c |-> c, op |-> op, cause |-> out])
    ELSE <<[c |-> c, op |-> op, cause |-> out]>>

\* what http.Server.Shutdown can return: nil, or ctx's error when
\* connections stay active (only a server that served can have any)
ServerOutcomes ==
    IF srv.ln = "serving" \/ (srv.inShutdown /\ ~srv.drained /\ stopped["server"])
      THEN {"ok", "fail"}
    ELSE {"ok"}

\* what a provider's ForceFlush / Shutdown can return.  A live provider
\* succeeds or fails ("fail": exporter error, ctx expired).  Once its
\* Shutdown was invoked, the log and trace providers return nil from both;
\* the meter provider passes on its readers' ErrReaderShutdown ("stopped"):
\* every reader for Shutdown, the periodic (OTLP) reader for ForceFlush.
ProviderOutcomes(c, op) ==
    IF ~stopped[c] THEN {"ok", "fail"}
    ELSE IF c = "mp" /\ op = "Shutdown" THEN {"stopped"}
    ELSE IF c = "mp" /\ \E i \in 1..Len(tel.readers) : tel.readers[i].kind = "otlp"
      THEN {"stopped"}
    ELSE {"ok"}

\* a call of t.Shutdown(ctx) begins: var err error
ShutdownBegin ==
    /\ tel.valid
    /\ spc = 0
    /\ ncalls < MaxShutdownCalls
    /\ spc' = 1
    /\ err' = <<>>
    /\ ret' = <<>>
    /\ calls' = <<>>
    /\ UNCHANGED <<env, span, ad, stack, opts, applied, nserve, q, tel, newErr, srv, gpc, stderr, stopped,
                   ncalls>>

\* if t.promServer != nil { t.promServer.Shutdown(ctx) }: the server is
\* marked shutting down and the listeners registered with it are closed
ShutdownServer ==
    /\ spc \in 1..Len(Steps)
    /\ Steps[spc].c = "server"
    /\ IF ~Present(tel, "server")
         THEN /\ spc' = spc + 1
              /\ UNCHANGED <<srv, err, calls, stopped>>
       ELSE \E out \in ServerOutcomes :
              /\ srv' = [srv EXCEPT
                           !.inShutdown = TRUE,
                           !.ln = IF @ = "serving" THEN "closed" ELSE @,
                           !.drained = (out = "ok")]
              /\ calls' = Append(calls, [c |-> "server", op |-> "Shutdown",
                                         out |-> out])
              /\ err' = AccErr(err, "server", "Shutdown", out)
              /\ stopped' = [stopped EXCEPT !["server"] = TRUE]
              /\ spc' = NextPc(spc, out)
    /\ UNCHANGED <<env, span, ad, stack, opts, applied, nserve, q, tel, newErr, gpc, stderr, ret, ncalls>>

\* if provider != nil { provider.ForceFlush(ctx) ...
ShutdownForceFlush ==
    /\ spc \in 1..Len(Steps)
    /\ Steps[spc].c # "server"
    /\ Steps[spc].op = "ForceFlush"
    /\ LET c == Steps[spc].c IN
       IF ~Present(tel, c)
         THEN /\ spc' = spc + 1
              /\ UNCHANGED <<err, calls>>
       ELSE \E out \in ProviderOutcomes(c, "ForceFlush") :
              /\ calls' = Append(calls, [c |-> c, op |-> "ForceFlush",
                                         out |-> out])
              /\ err' = AccErr(err, c, "ForceFlush", out)
              /\ spc' = NextPc(spc, out)
    /\ UNCHANGED <<env, span, ad, stack, opts, applied, nserve, q, tel, newErr, srv, gpc, stderr, ret, stopped,
                   ncalls>>

\* ... provider.Shutdown(ctx) }
ShutdownProvider ==
    /\ spc \in 1..Len(Steps)
    /\ Steps[spc].c # "server"
    /\ Steps[spc].op = "Shutdown"
    /\ LET c == Steps[spc].c IN
       IF ~Present(tel, c)
         THEN /\ spc' = spc + 1
              /\ UNCHANGED <<err, calls, stopped>>
       ELSE \E out \in ProviderOutcomes(c, "Shutdown") :
              /\ calls' = Append(calls, [c |-> c, op |-> "Shutdown",
                                         out |-> out])
              /\ err' = AccErr(err, c, "Shutdown", out)
              /\ stopped' = [stopped EXCEPT ![c] = TRUE]
              /\ spc' = NextPc(spc, out)
    /\ UNCHANGED <<env, span, ad, stack, opts, applied, nserve, q, tel, newErr, srv, gpc, stderr, ret, ncalls>>

\* return err
ShutdownReturn ==
    /\ spc > Len(Steps)
    /\ ret' = err
    /\ spc' = 0
    /\ ncalls' = ncalls + 1
    /\ UNCHANGED <<env, span, ad, stack, opts, applied, nserve, q, tel, newErr, srv, gpc, stderr, err, calls,
                   stopped>>

----------------------------------------------------------------------------
(* The life of one instance: New, the server goroutine, Shutdown           *)

LifeEnvs ==
    {[EmptyEnv EXCEPT !.OTEL_SDK_DISABLED = d,
                      !.OTEL_EXPORTER_OTLP_ENDPOINT = g,
                      !.OTEL_TRACES_EXPORTER = te,
                      !.OTEL_LOGS_EXPORTER = le] :
        d \in {"", "true"}, g \in EndpointValues,
        te \in {"", "none"}, le \in {"", "none"}}

LifeOptions ==
    {NilOptions, DefaultOptions}
      \cup
    {[ZeroOptions EXCEPT !.ServiceName = "svc", !.ServiceVersion = "1.0.0",
                         !.MetricsExporter = me, !.PrometheusServer = ps,
                         !.PrometheusPort = 19090,
                         !.PrometheusPath = "/metrics"] :
        me \in {<<>>, <<"none">>, <<"prometheus">>,
                <<"prometheus", ",", "otlp">>,
                <<"prometheus", ",", "bogus">>},
        ps \in BOOLEAN}

Init ==
    /\ env \in LifeEnvs
    /\ opts \in LifeOptions
    /\ stack = <<>>
    /\ Rest

Next ==
    \/ New
    \/ GoCheck
    \/ GoListen
    \/ GoServe
    \/ GoExit
    \/ ShutdownBegin
    \/ ShutdownServer
    \/ ShutdownForceFlush
    \/ ShutdownProvider
    \/ ShutdownReturn
    \/ StartSpan

Spec == Init /\ [][Next]_vars

----------------------------------------------------------------------------
(* New alone, over a wide range of environments and options                *)

NewEnvs ==
    {[EmptyEnv EXCEPT !.OTEL_SDK_DISABLED = d,
                      !.OTEL_EXPORTER_OTLP_ENDPOINT = g,
                      !.OTEL_EXPORTER_OTLP_METRICS_ENDPOINT = m,
                      !.OTEL_TRACES_EXPORTER = te,
                      !.OTEL_METRICS_EXPORTER = me,
                      !.OTEL_LOGS_EXPORTER = le] :
        d \in {"", "true", "T", "false", "yes"},
        g \in EndpointValues, m \in EndpointValues,
        te \in {"", "none"}, me \in SelectorValues,
        le \in {"", "none", "otlp"}}
      \cup
    {[EmptyEnv EXCEPT !.OTEL_EXPORTER_OTLP_ENDPOINT = g,
                      !.OTEL_METRICS_EXPORTER = me,
                      !.OTEL_SERVICE_NAME = "envsvc",
                      !.PROMETHEUS_PORT = <<"8", "0", "8", "0">>,
                      !.PROMETHEUS_PATH = "/m"] :
        g \in EndpointValues, me \in SelectorValues}

\* PrometheusServer with the PrometheusPath a caller's literal gives
ServerChoices ==
    {[ps |-> FALSE, path |-> ""], [ps |-> TRUE, path |-> ""],
     [ps |-> TRUE, path |-> "/metrics"]}

\* loggers a caller may put in Options.Logger, by the optional interfaces
\* they implement
SuppliedLoggers ==
    {[present |-> TRUE, id |-> "custom", optsUpdater |-> a,
      providerUpdater |-> b] : a, b \in BOOLEAN}

NewOptions ==
    {NilOptions, DefaultOptions, ZeroOptions}
      \cup
    {[ZeroOptions EXCEPT !.ServiceName = "svc", !.ServiceVersion = "1.0.0",
                         !.Logger = l] : l \in SuppliedLoggers}
      \cup
    {[ZeroOptions EXCEPT !.ServiceName = "svc", !.ServiceVersion = "1.0.0",
                         !.MetricsExporter = me,
                         !.PrometheusServer = sc.ps,
                         !.PrometheusPath = sc.path] :
        me \in {<<>>, <<"none">>, <<"prometheus">>, <<"otlp">>,
                <<"prometheus", ",", "otlp">>,
                <<"prometheus", ",", " ", "prometheus">>,
                <<"prometheus", ",", "bogus">>,
                <<"bogus", ",", "prometheus">>, <<",">>},
        sc \in ServerChoices}

InitNew ==
    /\ env \in NewEnvs
    /\ opts \in NewOptions
    /\ stack = <<>>
    /\ Rest

NextNew == New

SpecNew == InitNew /\ [][NextNew]_vars

----------------------------------------------------------------------------
(* applyEnvVars alone, over caller options and environment values          *)

PortValues ==
    {<<>>, <<"8", "0", "8", "0">>, <<"+", "7", "0">>, <<"-", "1">>,
     <<"i", "n", "v">>, <<"9", "0", "x">>, <<" ", "8", "0">>, <<"-">>}

ApplyEnvs ==
    {[EmptyEnv EXCEPT !.OTEL_SERVICE_NAME = n,
                      !.OTEL_SERVICE_VERSION = v,
                      !.OTEL_METRICS_EXPORTER = me,
                      !.PROMETHEUS_PORT = pp,
                      !.PROMETHEUS_PATH = path] :
        n \in {"", "envsvc"}, v \in {"", "2.0.0"},
        me \in {<<>>, <<"none">>, <<"prometheus">>},
        pp \in PortValues, path \in {"", "/m"}}

ApplyOptions ==
    {DefaultOptions, ZeroOptions,
     [ZeroOptions EXCEPT !.ServiceName = "svc", !.ServiceVersion = "1.0.0",
                         !.MetricsExporter = <<"otlp">>,
                         !.PrometheusPort = 19090,
                         !.PrometheusPath = "/custom"]}

InitApply ==
    /\ env \in ApplyEnvs
    /\ opts \in ApplyOptions
    /\ stack = <<>>
    /\ Rest

NextApply == ApplyEnvVars

SpecApply == InitApply /\ [][NextApply]_vars

----------------------------------------------------------------------------
(* The logger backend adapters (logger/zerolog, zap, logrus, slog) and    *)
(* the caller-location resolver (logger/caller.go)                         *)

\* the runtime.Callers window of FindFirstExternalCaller
MaxCaptured == 15

\* the skip count returned when no external frame is found
DefaultSkip == 3

\* UpdateLoggerProvider calls with a provider made on one adapter
MaxUpdates == 2

\* strings.Contains over a file path given as a sequence of atoms
Contains(file, pat) ==
    \E i \in 1..(Len(file) - Len(pat) + 1) :
        SubSeq(file, i, i + Len(pat) - 1) = pat

\* isInternalFrame: the telemetry logger packages, the backend libraries
\* and the Go runtime
isInternalFrame(file) ==
    \/ Contains(file, <<"go-telemetry", "/", "logger">>)
    \/ \E pkg \in {<<"rs", "/", "zerolog">>, <<"uber.org", "/", "zap">>,
                    <<"sirupsen", "/", "logrus">>, <<"log", "/", "slog">>,
                    <<"runtime", "/">>} : Contains(file, pkg)

\* the loop of FindFirstExternalCaller walking every frame of the stack,
\* captured or not
RECURSIVE WalkFramesUncapped(_, _)
WalkFramesUncapped(frames, skipCount) ==
    IF frames = <<>> THEN DefaultSkip
    ELSE IF ~isInternalFrame(Head(frames)) THEN (skipCount + 1) + 2
    ELSE WalkFramesUncapped(Tail(frames), skipCount + 1)

\* FindFirstExternalCaller over the whole stack
FindFirstExternalCallerUncapped(st) == WalkFramesUncapped(st, 0)

\* the loop of FindFirstExternalCaller: skipCount++ per frame, return at the
\* first frame that is not internal, the default after the last frame
RECURSIVE WalkFrames(_, _)
WalkFrames(frames, skipCount) ==
    IF frames = <<>> THEN DefaultSkip
    ELSE IF ~isInternalFrame(Head(frames)) THEN (skipCount + 1) + 2
    ELSE WalkFrames(Tail(frames), skipCount + 1)

\* FindFirstExternalCaller: runtime.Callers(1, pc) fills at most
\* MaxCaptured program counters, n == 0 gives the default
FindFirstExternalCaller(st) ==
    LET n == IF Len(st) < MaxCaptured THEN Len(st) ELSE MaxCaptured
    IN IF n = 0 THEN DefaultSkip ELSE WalkFrames(SubSeq(st, 1, n), 0)

\* the level names of logger.Logger's event constructors
Levels == {"trace", "debug", "info", "warn", "error", "fatal", "panic"}

Kinds == {"zerolog", "zap", "logrus", "slog"}

\* zerolog adapter, Trace() .. Panic(): the zerolog.Level of the event
zerologLevel(l) ==
    CASE l = "trace" -> 0 - 1 [] l = "debug" -> 0 [] l = "info" -> 1
      [] l = "warn" -> 2 [] l = "error" -> 3 [] l = "fatal" -> 4
      [] l = "panic" -> 5

\* zap adapter, Trace() .. Panic(): the zapcore.Level of the event
\* (trace is DebugLevel - 1)
zapLevel(l) ==
    CASE l = "trace" -> 0 - 2 [] l = "debug" -> 0 - 1 [] l = "info" -> 0
      [] l = "warn" -> 1 [] l = "error" -> 2 [] l = "panic" -> 4
      [] l = "fatal" -> 5

\* logrus adapter, Trace() .. Panic(): the logrus.Level of the event
logrusLevel(l) ==
    CASE l = "panic" -> 0 [] l = "fatal" -> 1 [] l = "error" -> 2
      [] l = "warn" -> 3 [] l = "info" -> 4 [] l = "debug" -> 5
      [] l = "trace" -> 6

\* slog adapter, Trace() .. Panic(): the slog.Level of the event (trace is
\* LevelDebug - 4; fatal and panic are LevelError)
slogLevel(l) ==
    CASE l = "trace" -> 0 - 8 [] l = "debug" -> 0 - 4 [] l = "info" -> 0
      [] l = "warn" -> 4 [] l = "error" -> 8 [] l = "fatal" -> 8
      [] l = "panic" -> 8

\* OTelHook.zerologLevelToOTel
zerologLevelToOTel(n) ==
    CASE n = 0 - 1 -> "Trace" [] n = 0 -> "Debug" [] n = 1 -> "Info"
      [] n = 2 -> "Warn" [] n = 3 -> "Error" [] n = 4 -> "Fatal"
      [] n = 5 -> "Fatal4" [] OTHER -> "Info"

\* OTelCore.zapLevelToOTel
zapLevelToOTel(n) ==
    CASE n = 0 - 1 -> "Debug" [] n = 0 -> "Info" [] n = 1 -> "Warn"
      [] n = 2 -> "Error" [] n = 3 -> "Fatal4" [] n = 4 -> "Fatal4"
      [] n = 5 -> "Fatal" [] OTHER -> "Info"

\* logrus OTelHook.logrusLevelToOTel
logrusLevelToOTel(n) ==
    CASE n = 6 -> "Trace" [] n = 5 -> "Debug" [] n = 4 -> "Info"
      [] n = 3 -> "Warn" [] n = 2 -> "Error" [] n = 1 -> "Fatal"
      [] n = 0 -> "Fatal4" [] OTHER -> "Info"

\* slog OTelHandler.slogLevelToOTel
slogLevelToOTel(n) ==
    IF n < 0 THEN "Debug"
    ELSE IF n < 4 THEN "Info"
    ELSE IF n < 8 THEN "Warn"
    ELSE "Error"

\* does the adapter's logger pass an event of this level on to its sinks:
\* the zap cores (base and OTelCore.Enabled) are fixed at DebugLevel; the
\* other backends' thresholds are configuration, taken at the most verbose
Enabled(kind, l) == IF kind = "zap" THEN zapLevel(l) >= 0 - 1 ELSE TRUE

\* the severity the adapter's OTel sink gives an event of this level
SinkSeverity(kind, l) ==
    CASE kind = "zerolog" -> zerologLevelToOTel(zerologLevel(l))
      [] kind = "zap" -> zapLevelToOTel(zapLevel(l))
      [] kind = "logrus" -> logrusLevelToOTel(logrusLevel(l))
      [] kind = "slog" -> slogLevelToOTel(slogLevel(l))

\* does Event.Msg end the process after writing: zerolog, zap and the slog
\* adapter exit on fatal; logrus Entry.Log does not
ExitsOn(kind, l) == l = "fatal" /\ kind # "logrus"

\* New(opts) of each backend package: one sink iff a LoggerProvider was
\* given; slog wraps the base handler in a CallerHandler under AddSource,
\* with the given skip count or, for 0, the auto-detected one
AdapterNew ==
    /\ ad.kind = "none"
    /\ \E kind \in Kinds, provider \in BOOLEAN, addSource \in BOOLEAN,
          given \in {0, 7} :
         /\ (kind # "slog") => (~addSource /\ given = 0)
         /\ LET skipCount == IF given = 0
                               THEN FindFirstExternalCaller(stack)
                             ELSE given
            IN ad' = [NoAdapter EXCEPT
                        !.kind = kind,
                        !.otelEnabled = provider,
                        !.sinks = IF provider THEN 1 ELSE 0,
                        !.serviceName = "svc",
                        !.lastOp = "New",
                        !.addSource = addSource,
                        !.given = given,
                        !.skip0 = IF addSource THEN skipCount ELSE 0,
                        !.hasCaller = addSource,
                        !.callerSkip = IF addSource THEN skipCount ELSE 0]
    /\ UNCHANGED <<env, opts, applied, nserve, q, tel, newErr, srv, gpc,
                   stderr, spc, err, ret, calls, stopped, ncalls, span,
                   stack>>

\* Logger.SetOptions: the names the next sink is created with
AdapterSetOptions ==
    /\ ad.kind # "none" /\ ~ad.exited
    /\ ad.serviceName = "svc"
    /\ ad' = [ad EXCEPT !.serviceName = "renamed", !.lastOp = "SetOptions"]
    /\ UNCHANGED <<env, opts, applied, nserve, q, tel, newErr, srv, gpc,
                   stderr, spc, err, ret, calls, stopped, ncalls, span,
                   stack>>

\* UpdateLoggerProvider(nil) detaching the sink
UpdateNilDetaches(a) == [a EXCEPT !.otelEnabled = FALSE, !.sinks = 0]

\* UpdateLoggerProvider: "if provider == nil { return }"
UpdateNil(a) == a

\* zerolog UpdateLoggerProvider: l.Logger = l.baseLogger.Hook(hook)
ZerologUpdate(a) == [a EXCEPT !.otelEnabled = TRUE, !.sinks = 1]

\* zap UpdateLoggerProvider: a new logger over NewTee(l.baseCore, otelCore)
ZapUpdate(a) == [a EXCEPT !.otelEnabled = TRUE, !.sinks = 1]

\* logrus UpdateLoggerProvider: l.AddHook(hook) on the same logrus.Logger
LogrusUpdate(a) == [a EXCEPT !.otelEnabled = TRUE, !.sinks = @ + 1]

\* slog UpdateLoggerProvider: the chain is rebuilt from baseHandler; the
\* CallerHandler is re-made only if the current logger's outermost handler
\* is one (no OTelHandler around it)
SlogUpdate(a) ==
    [a EXCEPT !.otelEnabled = TRUE,
              !.hasCaller = a.hasCaller /\ a.sinks = 0,
              !.callerSkip = IF a.hasCaller /\ a.sinks = 0 THEN @ ELSE 0,
              !.sinks = 1]

\* Logger.UpdateLoggerProvider(provider), provider nil or not
AdapterUpdateLoggerProvider ==
    /\ ad.kind # "none" /\ ~ad.exited
    /\ \E provider \in BOOLEAN :
         IF ~provider
           THEN /\ ad.lastOp # "UpdateNil"
                /\ ad' = [UpdateNil(ad) EXCEPT !.lastOp = "UpdateNil"]
         ELSE /\ ad.updates < MaxUpdates
              /\ LET a == CASE ad.kind = "zerolog" -> ZerologUpdate(ad)
                            [] ad.kind = "zap" -> ZapUpdate(ad)
                            [] ad.kind = "logrus" -> LogrusUpdate(ad)
                            [] ad.kind = "slog" -> SlogUpdate(ad)
                 IN ad' = [a EXCEPT !.updates = @ + 1, !.lastOp = "Update"]
    /\ UNCHANGED <<env, opts, applied, nserve, q, tel, newErr, srv, gpc,
                   stderr, spc, err, ret, calls, stopped, ncalls, span,
                   stack>>

\* OTelHandler.WithAttrs / WithGroup and CallerHandler.WithAttrs /
\* WithGroup: each handler of the chain derives itself over the derived
\* base, the CallerHandler with the same skip
DerivedChain(a) ==
    [made |-> TRUE, hasCaller |-> a.hasCaller, callerSkip |-> a.callerSkip,
     sinks |-> a.sinks]

\* a logger derived from the slog adapter's current one through
\* With()...Logger(), which is slog's Logger.With over the handler chain
AdapterSlogWith ==
    /\ ad.kind = "slog" /\ ~ad.exited
    /\ ad.lastOp # "With"
    /\ ad' = [ad EXCEPT !.derived = DerivedChain(ad), !.lastOp = "With"]
    /\ UNCHANGED <<env, opts, applied, nserve, q, tel, newErr, srv, gpc,
                   stderr, spc, err, ret, calls, stopped, ncalls, span,
                   stack>>

\* one event through Trace() .. Panic() and Msg: every sink on the logger
\* emits one OTel record with its severity for the event's native level
AdapterLog ==
    /\ ad.kind # "none" /\ ~ad.exited
    /\ \E l \in Levels :
         ad' = [ad EXCEPT
                  !.lastOp = "Log",
                  !.level = l,
                  !.severity = IF ad.sinks > 0 /\ Enabled(ad.kind, l)
                                 THEN SinkSeverity(ad.kind, l) ELSE "none",
                  !.emitted = IF Enabled(ad.kind, l) THEN ad.sinks ELSE 0,
                  !.exited = ExitsOn(ad.kind, l)]
    /\ UNCHANGED <<env, opts, applied, nserve, q, tel, newErr, srv, gpc,
                   stderr, spc, err, ret, calls, stopped, ncalls, span,
                   stack>>

\* file paths of stack frames, as atoms
CallerFile == <<"go-telemetry", "/", "logger", "/", "caller.go">>

AdapterFile == <<"go-telemetry", "/", "logger", "/", "slog", "/", "slog.go">>

BackendFile == <<"log", "/", "slog", "/", "logger.go">>

RuntimeFile == <<"runtime", "/", "proc.go">>

UserFile == <<"app", "/", "main.go">>

UserRuntimeDirFile == <<"app", "/", "runtime", "/", "worker.go">>

\* k internal frames: FindFirstExternalCaller itself, the adapter, then
\* backend library frames
InternalFrames(k) ==
    [i \in 1..k |-> IF i = 1 THEN CallerFile
                    ELSE IF i = 2 THEN AdapterFile ELSE BackendFile]

\* call stacks from FindFirstExternalCaller's own frame outward: some
\* internal frames, then the program's frames down to the runtime
Stacks ==
    {<<>>}
      \cup
    {InternalFrames(k) \o tail :
        k \in 0..(MaxCaptured + 2),
        tail \in {<<UserFile, RuntimeFile>>, <<RuntimeFile>>,
                  <<UserRuntimeDirFile, UserFile, RuntimeFile>>}}

InitAdapter ==
    /\ env = EmptyEnv
    /\ opts = NilOptions
    /\ stack \in Stacks
    /\ Rest

NextAdapter ==
    \/ AdapterNew
    \/ AdapterSetOptions
    \/ AdapterUpdateLoggerProvider
    \/ AdapterSlogWith
    \/ AdapterLog

SpecAdapter == InitAdapter /\ [][NextAdapter]_vars

----------------------------------------------------------------------------
(* Claims about New                                                        *)

\* C2: with OTEL_SDK_DISABLED parsing as true, a successful New holds no
\* logger provider, no tracer provider and no meter provider, whatever the
\* metrics selector and the endpoint variables are.
C2_KillSwitchNoProviders ==
    (tel.valid /\ KillSwitch(env)) => (~tel.lp /\ ~tel.tp /\ ~tel.mp)

----------------------------------------------------------------------------
(* Claims about Shutdown                                                   *)

\* a Shutdown call has returned and no other is running
Returned == spc = 0 /\ ncalls >= 1

Failed(i) == calls[i].out # "ok"

\* C5: within one Shutdown call the server's Shutdown comes before every
\* provider call, and each provider's ForceFlush comes before its Shutdown.
C5_ShutdownOrder ==
    \A i \in 1..Len(calls), j \in 1..Len(calls) :
        /\ (calls[i].c = "server" /\ calls[j].c # "server") => i < j
        /\ (calls[i].c = calls[j].c /\ calls[i].op = "ForceFlush"
              /\ calls[j].op = "Shutdown") => i < j
        /\ (calls[j].c # "server" /\ calls[j].op = "Shutdown") =>
              \E k \in 1..(j - 1) :
                  calls[k].c = calls[j].c /\ calls[k].op = "ForceFlush"

\* a Shutdown of an instance with the server and all three providers has
\* returned after its seven calls
C5_Witness ==
    /\ Returned
    /\ tel.promServer /\ tel.lp /\ tel.mp /\ tel.tp
    /\ Len(calls) = 7

\* the calls a complete Shutdown of instance t makes
ExpectedCalls(t) ==
    (IF t.promServer THEN {<<"server", "Shutdown">>} ELSE {})
      \cup
    {<<c, op>> : c \in {x \in {"lp", "mp", "tp"} : Present(t, x)},
                 op \in {"ForceFlush", "Shutdown"}}

\* C6: Shutdown attempts every step whatever failed before: when it
\* returns, the server stop and the flush and stop of every present provider
\* have all been called.
C6_AllStepsAttempted ==
    Returned =>
        \A e \in ExpectedCalls(tel) :
            \E i \in 1..Len(calls) : <<calls[i].c, calls[i].op>> = e

\* the server stop, the logs flush and the metrics stop failed, and the
\* traces provider was still flushed and stopped
C6_Witness ==
    /\ Returned
    /\ tel.promServer /\ tel.lp /\ tel.mp /\ tel.tp
    /\ \E i \in 1..Len(calls) :
           calls[i].c = "server" /\ Failed(i)
    /\ \E i \in 1..Len(calls) :
           calls[i].c = "lp" /\ calls[i].op = "ForceFlush" /\ Failed(i)
    /\ \E i \in 1..Len(calls) :
           calls[i].c = "mp" /\ calls[i].op = "Shutdown" /\ Failed(i)
    /\ \E i \in 1..Len(calls) : calls[i].c = "tp" /\ calls[i].op = "Shutdown"

\* C7: Shutdown returns nil iff no step returned an error, and otherwise the
\* returned error wraps every step error that occurred.
C7_AccumulatedError ==
    Returned =>
        /\ (ret = <<>>) <=> (\A i \in 1..Len(calls) : ~Failed(i))
        /\ \A i \in 1..Len(calls) :
               Failed(i) =>
                   \E k \in 1..Len(ret) :
                       ret[k] = [c |-> calls[i].c, op |-> calls[i].op,
                                 cause |-> calls[i].out]

\* three steps failed and all three are in the returned error
C7_Witness ==
    /\ Returned
    /\ Cardinality({i \in 1..Len(calls) : Failed(i)}) >= 3
    /\ Len(ret) >= 3

\* C8: a second Shutdown on the same instance returns no error that comes
\* merely from the providers and the server having been stopped by the
\* first call.
C8_SecondShutdownClean ==
    (Returned /\ ncalls >= 2) =>
        \A k \in 1..Len(ret) : ret[k].cause # "stopped"

\* C9: once a Shutdown has returned, the built-in listener is not open for
\* connections, under every interleaving with the serve goroutine.
C9_ClosedAfterShutdown ==
    (tel.promServer /\ ncalls >= 1) => srv.ln \notin {"bound", "serving"}

\* C10: once New has returned an instance with the built-in server, the
\* listener is serving.
C10_ServingAfterNew ==
    (tel.valid /\ tel.promServer /\ spc = 0 /\ ncalls = 0) =>
        srv.ln = "serving"

----------------------------------------------------------------------------
(* Claims about the metrics selector and its readers                       *)

\* New has run to its end (a return or a panic)
NewDone == newErr.msg # "pending"

\* the Options newWithOptions works on once New has run
EffectiveOptions ==
    IF opts.isNil THEN applyEnvVars(DefaultOptions, env) ELSE opts

\* the selector as configured: the option, overridden by the environment
ConfiguredSelector ==
    IF env.OTEL_METRICS_EXPORTER # <<>> THEN env.OTEL_METRICS_EXPORTER
    ELSE IF opts.isNil THEN <<>> ELSE applied.before.MetricsExporter

\* the selector whose list the loop walks (after the default to "otlp")
FinalSelector == MetricsDecision(EffectiveOptions, env).exporter

\* the trimmed entries of a selector, in list order
Entries(sel) ==
    [i \in 1..Len(Split(sel)) |-> TrimSpace(Split(sel)[i])]

KnownEntries == {<<>>, <<"none">>, <<"otlp">>, <<"prometheus">>}

\* positions of the entries that are no known exporter
BadAt(sel) ==
    {i \in 1..Len(Entries(sel)) : Entries(sel)[i] \notin KnownEntries}

\* positions of the entries that ask for a reader
ReaderAt(sel) ==
    {i \in 1..Len(Entries(sel)) :
        Entries(sel)[i] \in {<<"otlp">>, <<"prometheus">>}}

\* positions of the "prometheus" entries
PromAt(sel) ==
    {i \in 1..Len(Entries(sel)) : Entries(sel)[i] = <<"prometheus">>}

\* the least element of a non-empty set of positions
Least(S) == CHOOSE i \in S : \A j \in S : i <= j

C12_ExplicitNoneIsFinal ==
    (NewDone /\ ~opts.isNil /\ applied.before.MetricsExporter = <<"none">>
       /\ env.OTEL_METRICS_EXPORTER = <<>>) =>
        /\ tel.valid => ~tel.mp
        /\ newErr.msg # "failed to create OTLP reader"

\* C13: after a successful New a meter provider exists iff a reader was
\* produced, and a non-empty selector whose trimmed entries are all empty
\* or "none" gives no meter provider.
C13_MeterProviderIffReader ==
    tel.valid =>
        /\ tel.mp <=> Len(tel.readers) > 0
        /\ (/\ ConfiguredSelector # <<>>
            /\ \A i \in 1..Len(Entries(ConfiguredSelector)) :
                  Entries(ConfiguredSelector)[i] \in {<<>>, <<"none">>})
             => ~tel.mp

\* C14: after a successful New the readers are, in list order, one per
\* entry of the selector that is "otlp" or "prometheus" after trimming,
\* each of its entry's kind; with any reader there is a meter provider;
\* "prometheus,otlp" gives two readers and a Prometheus handler.
C14_OneReaderPerEntry ==
    tel.valid =>
        LET E == Entries(FinalSelector)
            R == ReaderAt(FinalSelector)
            n == IF MetricsDecision(EffectiveOptions, env).enable
                   THEN Cardinality(R) ELSE 0
        IN /\ Len(tel.readers) = n
           /\ \A k \in 1..n :
                 /\ tel.readers[k].entry \in R
                 /\ E[tel.readers[k].entry] = <<tel.readers[k].kind>>
                 /\ \A m \in 1..(k - 1) :
                       tel.readers[m].entry < tel.readers[k].entry
           /\ (n > 0) => tel.mp
           /\ (FinalSelector = <<"prometheus", ",", "otlp">>) =>
                 (Len(tel.readers) = 2 /\ tel.promHandler # 0)

\* "prometheus, prometheus": two Prometheus readers, one per entry
C14_Witness ==
    /\ tel.valid
    /\ FinalSelector = <<"prometheus", ",", " ", "prometheus">>
    /\ tel.readers = <<[kind |-> "prometheus", entry |-> 1],
                       [kind |-> "prometheus", entry |-> 2]>>
    /\ tel.mp

C16_FirstPrometheusHandler ==
    tel.valid =>
        tel.promHandler =
            (IF MetricsDecision(EffectiveOptions, env).enable
                  /\ PromAt(FinalSelector) # {}
               THEN Least(PromAt(FinalSelector)) ELSE 0)

\* the handler of entry 1 kept although entry 2 built a second reader
C16_Witness ==
    /\ tel.valid
    /\ PromAt(FinalSelector) = {1, 2}
    /\ Len(tel.readers) = 2
    /\ tel.promHandler = 1

----------------------------------------------------------------------------
(* Claims about the configuration: applyEnvVars and the defaults           *)

\* C17: after applyEnvVars each of ServiceName, ServiceVersion,
\* MetricsExporter and PrometheusPath is its environment variable when that
\* is non-empty, whatever the caller had set, and is what it was before
\* when the variable is unset or empty.
C17_EnvOverridesStrings ==
    applied.done =>
        /\ opts.ServiceName =
              (IF env.OTEL_SERVICE_NAME # "" THEN env.OTEL_SERVICE_NAME
               ELSE applied.before.ServiceName)
        /\ opts.ServiceVersion =
              (IF env.OTEL_SERVICE_VERSION # "" THEN env.OTEL_SERVICE_VERSION
               ELSE applied.before.ServiceVersion)
        /\ opts.MetricsExporter =
              (IF env.OTEL_METRICS_EXPORTER # <<>>
                 THEN env.OTEL_METRICS_EXPORTER
               ELSE applied.before.MetricsExporter)
        /\ opts.PrometheusPath =
              (IF env.PROMETHEUS_PATH # "" THEN env.PROMETHEUS_PATH
               ELSE applied.before.PrometheusPath)

\* the caller's service name replaced by the environment's, the caller's
\* path kept because PROMETHEUS_PATH is unset
C17_Witness ==
    /\ applied.done
    /\ applied.before.ServiceName = "svc"
    /\ env.OTEL_SERVICE_NAME = "envsvc"
    /\ opts.ServiceName = "envsvc"
    /\ env.PROMETHEUS_PATH = ""
    /\ opts.PrometheusPath = "/custom"

\* the PROMETHEUS_PORT values that are integers, with the integer each is
IntegerPorts ==
    {[text |-> <<"8", "0", "8", "0">>, int |-> 8080],
     [text |-> <<"+", "7", "0">>, int |-> 70],
     [text |-> <<"-", "1">>, int |-> 0 - 1]}

\* C18: after applyEnvVars, PrometheusPort is the integer PROMETHEUS_PORT
\* denotes when it denotes one, and otherwise (unset, empty or not an
\* integer) what it was before, not the default; nothing else changes with
\* the port variable, and applyEnvVars has no error to return.
C18_PortKeptUnlessInteger ==
    applied.done =>
        IF \E p \in IntegerPorts : p.text = env.PROMETHEUS_PORT
          THEN \A p \in IntegerPorts :
                  p.text = env.PROMETHEUS_PORT => opts.PrometheusPort = p.int
        ELSE opts.PrometheusPort = applied.before.PrometheusPort

\* "90x" left the caller's 19090 in place, not 9090
C18_Witness ==
    /\ applied.done
    /\ env.PROMETHEUS_PORT = <<"9", "0", "x">>
    /\ applied.before.PrometheusPort = 19090
    /\ opts.PrometheusPort = 19090

\* C19: in the configuration of an instance built from a non-nil Options,
\* a field the caller left at its zero value and no environment variable
\* sets has its documented default.
C19_UnsetFieldsTakeDefaults ==
    (tel.valid /\ ~opts.isNil) =>
        /\ (applied.before.ServiceName = "" /\ env.OTEL_SERVICE_NAME = "")
              => tel.cfg.ServiceName = "unknown"
        /\ (applied.before.ServiceVersion = ""
              /\ env.OTEL_SERVICE_VERSION = "")
              => tel.cfg.ServiceVersion = "unknown"
        /\ (applied.before.PrometheusPort = 0 /\ env.PROMETHEUS_PORT = <<>>)
              => tel.cfg.PrometheusPort = 9090
        /\ (applied.before.PrometheusPath = "" /\ env.PROMETHEUS_PATH = "")
              => tel.cfg.PrometheusPath = "/metrics"

\* C20: with no environment variable set and nil or DefaultOptions(), New
\* returns an instance and no error; the instance has no logger, tracer or
\* meter provider, has a logger and a tracer, and every Shutdown of it
\* returns nil.
C20_NoEnvNoProviders ==
    (NewDone /\ env = EmptyEnv
       /\ (opts.isNil \/ applied.before = DefaultOptions)) =>
        /\ tel.valid /\ newErr = NoError
        /\ ~tel.lp /\ ~tel.tp /\ ~tel.mp
        /\ tel.logger.id # "nil"
        /\ tel.tracer # "nil"
        /\ Returned => ret = <<>>

\* nil Options, empty environment: Shutdown returned nil, having had
\* nothing to stop
C20_Witness ==
    /\ env = EmptyEnv
    /\ opts.isNil
    /\ tel.valid
    /\ tel.tracer = "noop"
    /\ tel.logger.id = "zerolog"
    /\ Returned
    /\ calls = <<>>
    /\ ret = <<>>

----------------------------------------------------------------------------
(* Claims about the tracer and the supplied logger                         *)

\* C21: every instance New returned has a tracer, and every StartSpan on it
\* returns a span and a context without panicking, with or without a tracer
\* provider, before and after Shutdown.
C21_TracerAlwaysUsable ==
    /\ tel.valid => tel.tracer # "nil"
    /\ span.called => (~span.panicked /\ span.ctx /\ span.span # "nil")

\* no tracer provider: the no-op tracer gave a no-op span
C21_Witness ==
    /\ tel.valid
    /\ ~tel.tp
    /\ tel.tracer = "noop"
    /\ span.called
    /\ span.span = "noop"

\* C22: with Options.Logger supplied, the instance holds that very logger;
\* the calls New made on it are SetOptions(service name, service version)
\* when it is a LoggerOptionsUpdater, followed by UpdateLoggerProvider when
\* and only when a logger provider was built and it is a
\* LoggerProviderUpdater; nothing else is called.
C22_SuppliedLoggerAdopted ==
    (tel.valid /\ applied.before.Logger.present) =>
        LET l == applied.before.Logger
            setOptions ==
                IF l.optsUpdater
                  THEN <<[op |-> "SetOptions", name |-> tel.cfg.ServiceName,
                          version |-> tel.cfg.ServiceVersion]>>
                ELSE <<>>
            update ==
                IF tel.lp /\ l.providerUpdater
                  THEN <<[op |-> "UpdateLoggerProvider", name |-> "",
                          version |-> ""]>>
                ELSE <<>>
        IN /\ tel.logger.id = l.id
           /\ tel.logger.calls = setOptions \o update

\* a logger with both interfaces and a logger provider: both calls, in
\* order, with the environment's service name
C22_Witness ==
    /\ tel.valid
    /\ applied.before.Logger.present
    /\ tel.lp
    /\ tel.logger.id = "custom"
    /\ Len(tel.logger.calls) = 2
    /\ tel.logger.calls[1].op = "SetOptions"
    /\ tel.logger.calls[1].name = "envsvc"
    /\ tel.logger.calls[2].op = "UpdateLoggerProvider"

----------------------------------------------------------------------------
(* Claims about the logger adapters *)

\* C23: for every backend adapter the OTel attachment only moves from
\* disabled to enabled: no operation on the instance, UpdateLoggerProvider
\* with a nil provider included, sets otelEnabled back to false or leaves
\* the logger without the sink it had.
C23_AttachmentOneWay ==
    [][/\ ad.otelEnabled => ad'.otelEnabled
       /\ ad.sinks >= 1 => ad'.sinks >= 1]_vars

\* an attached adapter after UpdateLoggerProvider(nil)
C23_Witness ==
    /\ ad.lastOp = "UpdateNil"
    /\ ad.otelEnabled
    /\ ad.sinks >= 1
    /\ ad.updates >= 1

\* the severity table of the specification
TableSeverity(l) ==
    CASE l = "trace" -> "Trace" [] l = "debug" -> "Debug"
      [] l = "info" -> "Info" [] l = "warn" -> "Warn"
      [] l = "error" -> "Error" [] l = "fatal" -> "Fatal"
      [] l = "panic" -> "Fatal4"

\* C24: every OTel sink maps trace, debug, info, warn, error, fatal and
\* panic to Trace, Debug, Info, Warn, Error, Fatal and Fatal4, for all four
\* backends: an event logged through an adapter with a sink reaches OTel
\* with the table's severity.
C24_SeverityTable ==
    (ad.lastOp = "Log" /\ ad.sinks >= 1) =>
        ad.severity = TableSeverity(ad.level)

\* the part of C24 that holds: zerolog and logrus on every level, zap and
\* slog on debug, info, warn and error, zap also on fatal and panic
C24_SeverityTableWhereMapped ==
    (/\ ad.lastOp = "Log" /\ ad.sinks >= 1
     /\ \/ ad.kind \in {"zerolog", "logrus"}
        \/ ad.level \in {"debug", "info", "warn", "error"}
        \/ ad.kind = "zap" /\ ad.level \in {"fatal", "panic"}) =>
        ad.severity = TableSeverity(ad.level)

\* the positions, within the captured window, of the frames that match no
\* internal pattern
ExternalPositions(st) ==
    {k \in 1..Len(st) : k <= MaxCaptured /\ ~isInternalFrame(st[k])}

\* C25: FindFirstExternalCaller returns k + 2, k the 1-based position of
\* the first of at most 15 captured frames that matches no internal
\* pattern, and the default 3 when no frame is captured or every captured
\* frame is internal.
C25_FirstExternalCaller ==
    (ad.kind = "slog" /\ ad.addSource /\ ad.given = 0) =>
        ad.skip0 = IF ExternalPositions(stack) = {} THEN DefaultSkip
                   ELSE Least(ExternalPositions(stack)) + 2

\* the first external frame is the last one of the window
C25_Witness ==
    /\ ad.kind = "slog" /\ ad.addSource /\ ad.given = 0
    /\ Len(stack) > MaxCaptured
    /\ Least(ExternalPositions(stack)) = MaxCaptured
    /\ ad.skip0 = MaxCaptured + 2

\* C28: after construction, with or without a logger provider, and one or
\* more UpdateLoggerProvider calls with a provider, the adapter has exactly
\* one OTel sink, and an event its logger passes on is emitted to OTel
\* exactly once.
C28_ExactlyOneSink ==
    (ad.kind # "none" /\ ad.updates >= 1) =>
        /\ ad.sinks = 1
        /\ (ad.lastOp = "Log" /\ Enabled(ad.kind, ad.level)) => ad.emitted = 1

\* the part of C28 that holds: the adapters that rebuild their logger from
\* a stored base
C28_ExactlyOneSinkWhenRebuilt ==
    (ad.kind \in {"zerolog", "zap", "slog"} /\ ad.updates >= 1) =>
        /\ ad.sinks = 1
        /\ (ad.lastOp = "Log" /\ Enabled(ad.kind, ad.level)) => ad.emitted = 1

\* C29: the slog adapter's caller-skip count is fixed in New (auto-detected
\* for CallerSkipFrameCount 0, else the given value) and is still the count
\* applied by the adapter's handler chain after UpdateLoggerProvider, and by
\* the chain of a logger derived with WithAttrs / WithGroup, also when the
\* adapter was constructed with a logger provider.
C29_CallerSkipKept ==
    (ad.kind = "slog" /\ ad.addSource) =>
        /\ ad.skip0 = IF ad.given = 0 THEN FindFirstExternalCaller(stack)
                      ELSE ad.given
        /\ ad.hasCaller /\ ad.callerSkip = ad.skip0
        /\ ad.derived.made =>
              (ad.derived.hasCaller /\ ad.derived.callerSkip = ad.skip0)

----------------------------------------------------------------------------
(* Claims about partial construction and the metrics-only path *)

\* C26: when New has started the built-in Prometheus listener and a later
\* entry of the selector fails (OTLP reader error or unsupported name), New
\* returns the error, there is no instance, so no Shutdown ever runs, and
\* the listener goroutine is never stopped: the server is not shut down,
\* its listener is not closed, and the goroutine ends only by its own
\* failure to listen.
C26_ListenerLeaked ==
    (newErr.msg \notin {"pending", ""} /\ nserve >= 1) =>
        /\ ~tel.valid
        /\ spc = 0 /\ ncalls = 0
        /\ srv.built /\ ~srv.inShutdown /\ srv.ln # "closed"
        /\ gpc # "none"
        /\ gpc = "done" => stderr

\* "prometheus,bogus" with PrometheusServer: New failed on "bogus" and the
\* goroutine is accepting connections
C26_Witness ==
    /\ newErr.msg = UnsupportedMsg
    /\ newErr.entry = <<"bogus">>
    /\ ~tel.valid
    /\ nserve = 1
    /\ gpc = "accept"
    /\ srv.ln = "serving"

\* no OTel environment variable is set
NoOTelEnv ==
    /\ env.OTEL_SDK_DISABLED = "" /\ env.OTEL_SERVICE_NAME = ""
    /\ env.OTEL_SERVICE_VERSION = ""
    /\ env.OTEL_EXPORTER_OTLP_ENDPOINT = ""
    /\ env.OTEL_EXPORTER_OTLP_TRACES_ENDPOINT = ""
    /\ env.OTEL_EXPORTER_OTLP_METRICS_ENDPOINT = ""
    /\ env.OTEL_EXPORTER_OTLP_LOGS_ENDPOINT = ""
    /\ env.OTEL_TRACES_EXPORTER = "" /\ env.OTEL_METRICS_EXPORTER = <<>>
    /\ env.OTEL_LOGS_EXPORTER = ""

C30_ServerHandlerMeter ==
    tel.valid =>
        /\ tel.promServer => tel.promHandler # 0
        /\ tel.promHandler # 0 => tel.mp

\* an instance that holds a server, its handler and a meter provider
C30_Witness ==
    /\ tel.valid
    /\ tel.promServer
    /\ tel.promHandler # 0
    /\ tel.mp

====
